---- MODULE Spec2Model ----
(***************************************************************************)
(* Model of src/main.py: the heuristic extractor (UniversalWebScraper),    *)
(* the bounded concurrent dispatcher (scrape_multiple_urls), the source    *)
(* adapters, the process_articles workflow, preprocess_text and the rate   *)
(* limiting of GeminiSummarizer.summarize_text.                            *)
(*                                                                         *)
(* Strings are modelled run-length encoded: a text is a sequence of runs   *)
(* [c |-> class, n |-> number of characters].  The classes are             *)
(*   "a" lowercase letter      "A" uppercase letter                        *)
(*   "s" space or tab          "n" newline                                 *)
(*   "p" a character of the set the author filter disallows (@ . / ...)    *)
(*   "t" one complete markup tag such as <b>, n characters long            *)
(*   "e" one escaped markup tag such as &lt;b&gt;, n characters long       *)
(*   "x" characters of a markup tag that a slice has cut in two            *)
(* len(), strip(), slicing, concatenation and lower() are computed on the  *)
(* runs, so lengths up to the program's 10,000 character limit are exact.  *)
(***************************************************************************)
EXTENDS Integers, Sequences, FiniteSets, TLC

VARIABLES
    \* ---- scrape_url on one fetched page (lines 177-204)
    xurl,        \* the url argument of scrape_url
    xpage,       \* the parsed document (soup)
    xpc,         \* position inside scrape_url
    xtitle,      \* local title
    xauthor,     \* local author
    xcontent,    \* local content
    xresponse,   \* what the GET has answered so far
    xresult,     \* the value scrape_url returns
    xbest,       \* best_content after each step of _extract_main_content
    \* ---- scrape_multiple_urls (lines 213-231)
    urls,            \* the urls argument
    max_concurrent,  \* the max_concurrent argument
    semaphore,       \* the semaphore's value: free slots
    waiters,         \* tasks suspended in semaphore.acquire(), oldest first
    tasks,           \* per item: where scrape_with_semaphore(url) stands
    gets,            \* per item: GET requests sent for it
    dpc,             \* position inside scrape_multiple_urls
    articles,        \* the list scrape_multiple_urls returns
    \* ---- ArticleProcessor.process_articles (lines 649-689)
    source,          \* the source argument, classified as scrape_articles does
    limit,           \* the limit argument
    summarizer,      \* whether self.summarizer is set
    ppc,             \* position inside process_articles
    fetched,         \* what the GETs of scrape_articles answered, per item
    scraped,         \* articles: the list scrape_articles returned
    idx,             \* position of the for loop in articles
    stored,          \* the rows store_article has inserted, oldest first
    article_ids,     \* the list process_articles returns
    calls,           \* per processed item: what the summarization call did
    store_raised,    \* the items for which store_article raised
    \* ---- TextProcessor.preprocess_text (lines 442-462)
    tinput,          \* the text argument
    tpc,             \* how many times preprocess_text has been applied
    tonce,           \* preprocess_text(tinput)
    ttwice,          \* preprocess_text(preprocess_text(tinput))
    \* ---- GeminiSummarizer.summarize_text (lines 500-554)
    now,                \* time.time(), in ticks
    last_request_time,  \* self.last_request_time
    spc,                \* position inside summarize_text
    wake_at,            \* when asyncio.sleep is due to end
    sent_prev,          \* when the request before the last was sent (-1: none)
    sent_last           \* when the last request was sent (-1: none)

xvars == <<xurl, xpage, xpc, xtitle, xauthor, xcontent, xresponse, xresult, xbest>>
dvars == <<urls, max_concurrent, semaphore, waiters, tasks, gets, dpc, articles>>
pvars == <<source, limit, summarizer, ppc, fetched, scraped, idx, stored, article_ids,
           calls, store_raised>>
tvars == <<tinput, tpc, tonce, ttwice>>
svars == <<now, last_request_time, spc, wake_at, sent_prev, sent_last>>
vars == <<xvars, dvars, pvars, tvars, svars>>

----------------------------------------------------------------------------
(* Python values *)

None == [is |-> "None"]
Tag(text) == [is |-> "Tag", text |-> text]
IsNone(v) == v.is = "None"

----------------------------------------------------------------------------
(* Texts *)

R(c, n) == [c |-> c, n |-> n]
EmptyText == << >>

WhiteClasses == {"s", "n"}
MarkupClasses == {"t", "e"}

RECURSIVE TLen(_)
TLen(t) == IF t = << >> THEN 0 ELSE Head(t).n + TLen(Tail(t))

\* adjacent runs of one character class are one run; a markup tag stays a unit
RECURSIVE Norm(_)
Norm(t) ==
    IF Len(t) < 2 THEN t
    ELSE IF Head(t).c = t[2].c /\ Head(t).c \notin MarkupClasses
         THEN Norm(<<R(Head(t).c, Head(t).n + t[2].n)>> \o Tail(Tail(t)))
         ELSE <<Head(t)>> \o Norm(Tail(t))

Concat(a, b) == Norm(a \o b)

\* t[:k]
RECURSIVE Take(_, _)
Take(t, k) ==
    IF t = << >> \/ k <= 0 THEN << >>
    ELSE IF Head(t).n <= k THEN <<Head(t)>> \o Take(Tail(t), k - Head(t).n)
    ELSE <<R(IF Head(t).c \in MarkupClasses THEN "x" ELSE Head(t).c, k)>>

RECURSIVE LStrip(_)
LStrip(t) ==
    IF t = << >> THEN t
    ELSE IF Head(t).c \in WhiteClasses THEN LStrip(Tail(t)) ELSE t

RECURSIVE RStrip(_)
RStrip(t) ==
    IF t = << >> THEN t
    ELSE IF t[Len(t)].c \in WhiteClasses THEN RStrip(SubSeq(t, 1, Len(t) - 1)) ELSE t

\* str.strip()
Strip(t) == RStrip(LStrip(t))

\* ' '.join(parts)
RECURSIVE JoinSpace(_)
JoinSpace(parts) ==
    IF parts = << >> THEN EmptyText
    ELSE IF Len(parts) = 1 THEN Head(parts)
    ELSE Concat(Concat(Head(parts), <<R("s", 1)>>), JoinSpace(Tail(parts)))

----------------------------------------------------------------------------
(* Program constants *)

TitleMinLen == 3          \* len(title) > 3
TitleMaxLen == 200        \* title[:200]
AuthorMaxLen == 100       \* len(author) < 100
BylineMinLen == 2         \* len(author) > 2
SelectorMinLen == 100     \* len(text) > 100
ParagraphThreshold == 200 \* len(best_content) < 200
BodyThreshold == 100      \* len(best_content) < 100
ContentMaxLen == 10000    \* best_content[:10000]
MinContentLen == 50       \* len(content) < 50

\* "Article from "
ArticleFromPrefix == <<R("A", 1), R("a", 6), R("s", 1), R("a", 4), R("s", 1)>>
\* "Unknown"
Unknown == <<R("A", 1), R("a", 6)>>
\* "No content extracted"
NoContentExtracted ==
    <<R("A", 1), R("a", 1), R("s", 1), R("a", 7), R("s", 1), R("a", 9)>>

----------------------------------------------------------------------------
(* URLs: a url string is schemes[1] "://" schemes[2] "://" ... host path,   *)
(* where host is the text up to the first "/" and path the rest.            *)

SchemeText(s) ==
    CASE s = "http"  -> <<R("a", 4)>>
      [] s = "https" -> <<R("a", 5)>>
      [] s = "ftp"   -> <<R("a", 3)>>
      [] s = "HTTP"  -> <<R("A", 4)>>

\* url.startswith(('http://', 'https://'))
StartsWithHttp(url) ==
    /\ Len(url.schemes) >= 1
    /\ url.schemes[1] \in {"http", "https"}

_clean_url(url) ==
    IF ~StartsWithHttp(url)
    THEN [url EXCEPT !.schemes = <<"https">> \o @]
    ELSE url

\* urlparse(url).netloc: what stands between the first "//" and the next "/"
netloc(url) ==
    IF Len(url.schemes) = 0 THEN EmptyText
    ELSE IF Len(url.schemes) = 1 THEN url.host
    ELSE Concat(SchemeText(url.schemes[2]), <<R("p", 1)>>)

----------------------------------------------------------------------------
(* UniversalWebScraper._extract_title *)

\* the five soup.find results, in the order of the list
title_candidates(soup) == <<soup.h1, soup.title, soup.og_title, soup.twitter_title, soup.h2>>

\* candidate.get('content', '').strip() / candidate.get_text().strip()
CandidateTitle(candidate) == Strip(candidate.text)

TitleQualifiesShort(title) == title # EmptyText
\* if title and len(title) > 3
TitleQualifies(title) == title # EmptyText /\ TLen(title) > TitleMinLen

\* f"Article from {parsed_url.netloc}"
TitleFallback(url) == Concat(ArticleFromPrefix, netloc(url))

RECURSIVE TitleLoop(_, _)
TitleLoop(cands, url) ==
    IF cands = << >> THEN TitleFallback(url)
    ELSE IF ~IsNone(Head(cands)) /\ TitleQualifies(CandidateTitle(Head(cands)))
         THEN Take(CandidateTitle(Head(cands)), TitleMaxLen)
         ELSE TitleLoop(Tail(cands), url)

_extract_title(soup, url) == TitleLoop(title_candidates(soup), url)

----------------------------------------------------------------------------
(* UniversalWebScraper._extract_author *)

\* re.search(r'[<>@#$%^&*()+=\[\]{}|\\:";\'<>?,./]', author)
HasDisallowed(author) ==
    \E i \in 1..Len(author) : author[i].c \in {"p", "t", "e", "x"}

\* meta.get('content', '').strip() passes "if author and len(author) < 100"
MetaQualifies(meta) ==
    /\ ~IsNone(meta)
    /\ Strip(meta.text) # EmptyText
    /\ TLen(Strip(meta.text)) < AuthorMaxLen

BylineFilterNone(author) == TRUE
\* if not re.search(...)
BylineFilter(author) == ~HasDisallowed(author)

\* if author and len(author) < 100 and len(author) > 2, then the filter
BylineQualifies(author) ==
    /\ author # EmptyText
    /\ TLen(author) < AuthorMaxLen
    /\ TLen(author) > BylineMinLen
    /\ BylineFilter(author)

BylineLoopFirstOnly(elements) ==
    IF elements = << >> THEN Unknown
    ELSE IF BylineQualifies(Strip(Head(elements)))
         THEN Strip(Head(elements))
         ELSE Unknown

\* the nested loops over author_selectors and soup.select(selector)
RECURSIVE BylineLoop(_)
BylineLoop(elements) ==
    IF elements = << >> THEN Unknown
    ELSE IF BylineQualifies(Strip(Head(elements)))
         THEN Strip(Head(elements))
         ELSE BylineLoop(Tail(elements))

_extract_author(soup) ==
    IF MetaQualifies(soup.meta_author) THEN Strip(soup.meta_author.text)
    ELSE IF MetaQualifies(soup.meta_article_author)
         THEN Strip(soup.meta_article_author.text)
         ELSE BylineLoop(soup.bylines)

----------------------------------------------------------------------------
(* UniversalWebScraper._extract_main_content *)

RECURSIVE SelectorLoopLastWins(_, _)
SelectorLoopLastWins(elements, best) ==
    IF elements = << >> THEN best
    ELSE SelectorLoopLastWins(Tail(elements),
            IF TLen(Head(elements)) >= TLen(best) /\ TLen(Head(elements)) > SelectorMinLen
            THEN Head(elements) ELSE best)

\* the nested loops over content_selectors and soup.select(selector):
\* best_content after the elements, starting from best
RECURSIVE SelectorLoop(_, _)
SelectorLoop(elements, best) ==
    IF elements = << >> THEN best
    ELSE SelectorLoop(Tail(elements),
            IF TLen(Head(elements)) > TLen(best) /\ TLen(Head(elements)) > SelectorMinLen
            THEN Head(elements) ELSE best)

\* [p.get_text(strip=True) for p in paragraphs if p.get_text(strip=True)]
NonEmpty(texts) == SelectSeq(texts, LAMBDA t : t # EmptyText)

ParagraphFallbackUnguarded(soup, best) ==
    LET paragraph_text == JoinSpace(NonEmpty(soup.paragraphs))
    IN  IF TLen(paragraph_text) > TLen(best) THEN paragraph_text ELSE best

\* lines 150-158
ParagraphFallback(soup, best) ==
    IF best = EmptyText \/ TLen(best) < ParagraphThreshold
    THEN LET paragraph_text == JoinSpace(NonEmpty(soup.paragraphs))
         IN  IF TLen(paragraph_text) > TLen(best) THEN paragraph_text ELSE best
    ELSE best

BodyFallbackAlways(soup, best) ==
    IF ~IsNone(soup.body) THEN soup.body.text ELSE best

\* lines 160-167
BodyFallback(soup, best) ==
    IF best = EmptyText \/ TLen(best) < BodyThreshold
    THEN IF ~IsNone(soup.body) THEN soup.body.text ELSE best
    ELSE best

\* best_content when line 169 is reached
BestContent(soup) ==
    BodyFallback(soup, ParagraphFallback(soup, SelectorLoop(soup.selected, EmptyText)))

\* best_content after the selector loop (line 148), after the paragraph
\* fallback (line 158) and after the body fallback (line 167)
BestSteps(soup) ==
    LET after_selectors == SelectorLoop(soup.selected, EmptyText)
        after_paragraphs == ParagraphFallback(soup, after_selectors)
    IN  [selectors |-> after_selectors,
         paragraphs |-> after_paragraphs,
         body |-> BodyFallback(soup, after_paragraphs)]

ContentSliceNone(best) == best
\* best_content[:10000]
ContentSlice(best) == Take(best, ContentMaxLen)

_extract_main_content(soup) ==
    IF BestContent(soup) # EmptyText
    THEN ContentSlice(BestContent(soup))
    ELSE NoContentExtracted

----------------------------------------------------------------------------
(* UniversalWebScraper.scrape_url *)

Article(title, author, content, source_url) ==
    [is |-> "dict", title |-> title, author |-> author,
     content |-> content, source_url |-> source_url]

Raised(exc) == [is |-> "Exception", exc |-> exc]

ContentSufficientNonEmpty(content) == content # EmptyText
\* the negation of "if not content or len(content) < 50"
ContentSufficient(content) ==
    ~(content = EmptyText \/ TLen(content) < MinContentLen)

\* lines 199-204, or the None of line 197
RecordOrNone(title, author, content, url) ==
    IF ContentSufficient(content)
    THEN Article(title, author, content, url)
    ELSE None

HandleExceptionPropagate(exc) == Raised(exc)
\* except asyncio.TimeoutError / except Exception: log, return None
HandleException(exc) == None

\* what the awaited GET can answer
GetExceptions == {"TimeoutError", "ClientError"}
TextExceptions == {"TimeoutError", "UnicodeDecodeError"}
BadStatuses == {404, 500}

ResponseRaise(exc) == [kind |-> "raise_get", exc |-> exc]
ResponseStatus(status) == [kind |-> "status", status |-> status]
ResponseTextRaise(exc) == [kind |-> "raise_text", status |-> 200, exc |-> exc]
ResponseHtml(soup) == [kind |-> "html", status |-> 200, soup |-> soup]
NoResponse == [kind |-> "pending"]

\* scrape_url as one call: the value returned for what the GET answered
scrape_url(url, response) ==
    LET u == _clean_url(url)
    IN  CASE response.kind = "raise_get" -> HandleException(response.exc)
          [] response.kind = "status" -> None
          [] response.kind = "raise_text" -> HandleException(response.exc)
          [] response.kind = "html" ->
                RecordOrNone(_extract_title(response.soup, u),
                             _extract_author(response.soup),
                             _extract_main_content(response.soup), u)

----------------------------------------------------------------------------
(* Inputs of scrape_url: urls and documents *)

MaxBylines == 2       \* elements matched by the author selectors
MaxSelected == 2      \* elements matched by the content selectors
MaxParagraphs == 2    \* <p> elements

SeqsUpTo(S, k) == UNION {[1..m -> S] : m \in 0..k}

Letters(k) == <<R("a", k)>>
Capitalized(k) == <<R("A", 1), R("a", k - 1)>>

\* "example.com"
HostExample == <<R("a", 7), R("p", 1), R("a", 3)>>
\* a host of three 63 character labels and "com": 195 characters
HostLong == <<R("a", 63), R("p", 1), R("a", 63), R("p", 1), R("a", 63), R("p", 1), R("a", 3)>>
\* "/x"
PathX == <<R("p", 1), R("a", 1)>>

Url(schemes, host) == [schemes |-> schemes, host |-> host, path |-> PathX]
UrlExample == Url(<<"https">>, HostExample)

Urls ==
    {Url(sc, h) : sc \in {<< >>, <<"http">>, <<"https">>, <<"ftp">>, <<"HTTP">>},
                  h \in {HostExample, HostLong}}

\* a document with a qualifying <h1>, no author markup and 300 characters of
\* prose in one element the content selectors match
BasePage ==
    [h1 |-> Tag(Capitalized(11)), title |-> None, og_title |-> None,
     twitter_title |-> None, h2 |-> None,
     meta_author |-> None, meta_article_author |-> None, bylines |-> << >>,
     selected |-> <<Letters(300)>>, paragraphs |-> << >>, body |-> None]

\* title candidates: absent, too short, or qualifying with a text of its own
TitleOptions(k) == {None, Tag(Letters(3)), Tag(Capitalized(10 + k))}
H1Options ==
    TitleOptions(1) \cup
    {Tag(EmptyText), Tag(Letters(4)), Tag(Letters(250)),
     Tag(<<R("n", 1), R("s", 2), R("a", 3), R("n", 1)>>),
     Tag(<<R("s", 1), R("a", 2), R("s", 1), R("a", 2), R("s", 1)>>)}

NoTitlePage == [BasePage EXCEPT !.h1 = None]

\* "Jane Doe", "Bob Ray", "john@example.com", "By: Ann Lee"
JaneDoe == <<R("A", 1), R("a", 3), R("s", 1), R("A", 1), R("a", 2)>>
BobRay == <<R("A", 1), R("a", 2), R("s", 1), R("A", 1), R("a", 2)>>
JohnEmail == <<R("a", 4), R("p", 1), R("a", 7), R("p", 1), R("a", 3)>>
ByAnnLee == <<R("A", 1), R("a", 1), R("p", 1), R("s", 1), R("A", 1), R("a", 2),
              R("s", 1), R("A", 1), R("a", 2)>>

MetaAuthorOptions ==
    {None, Tag(EmptyText), Tag(JaneDoe), Tag(JohnEmail), Tag(Letters(100)), Tag(Letters(1))}
MetaArticleAuthorOptions ==
    {None, Tag(BobRay), Tag(<<R("s", 1)>> \o JohnEmail), Tag(Letters(99))}
BylineTexts ==
    {Capitalized(2), Capitalized(3), ByAnnLee, Letters(99), Letters(100),
     <<R("n", 1), R("s", 4)>> \o Capitalized(9) \o <<R("n", 1)>>,
     <<R("t", 3), R("A", 1), R("a", 4), R("t", 4)>>}

SelectedTexts ==
    {Letters(60), Letters(100), Letters(101), Capitalized(101), Letters(200), Letters(10001)}
ParagraphTexts == {EmptyText, Letters(30), Letters(60), Letters(100), Letters(10001)}
BodyOptions == {None, Tag(EmptyText), Tag(Letters(30)), Tag(Letters(120)), Tag(Letters(10001))}

\* the documents scrape_url is run on with the url "https://example.com/x":
\* every combination of the title candidates,
TitleInput ==
    /\ xurl = UrlExample
    /\ \E a \in H1Options, b \in TitleOptions(2), c \in TitleOptions(3),
          d \in TitleOptions(4), e \in TitleOptions(5) :
        xpage = [BasePage EXCEPT !.h1 = a, !.title = b, !.og_title = c,
                                 !.twitter_title = d, !.h2 = e]

\* of the author markup,
AuthorInput ==
    /\ xurl = UrlExample
    /\ \E a \in MetaAuthorOptions, b \in MetaArticleAuthorOptions,
          c \in SeqsUpTo(BylineTexts, MaxBylines) :
        xpage = [BasePage EXCEPT !.meta_author = a, !.meta_article_author = b,
                                 !.bylines = c]

\* and of the content markup;
ContentInput ==
    /\ xurl = UrlExample
    /\ \E a \in SeqsUpTo(SelectedTexts, MaxSelected),
          b \in SeqsUpTo(ParagraphTexts, MaxParagraphs), c \in BodyOptions :
        xpage = [BasePage EXCEPT !.selected = a, !.paragraphs = b, !.body = c]

\* and every url, on a document with and without a title candidate
UrlInput ==
    /\ xurl \in Urls
    /\ xpage \in {NoTitlePage, BasePage}

----------------------------------------------------------------------------
(* scrape_url, statement by statement *)

XIdle ==
    /\ xurl = UrlExample
    /\ xpage = BasePage
    /\ xpc = "idle"
    /\ xtitle = EmptyText
    /\ xauthor = EmptyText
    /\ xcontent = EmptyText
    /\ xresponse = NoResponse
    /\ xresult = None
    /\ xbest = << >>

DIdle ==
    /\ urls = << >>
    /\ max_concurrent = 0
    /\ semaphore = 0
    /\ waiters = << >>
    /\ tasks = << >>
    /\ gets = << >>
    /\ dpc = "idle"
    /\ articles = << >>

PIdle ==
    /\ source = [kind |-> "unknown"]
    /\ limit = 0
    /\ summarizer = FALSE
    /\ ppc = "idle"
    /\ fetched = << >>
    /\ scraped = << >>
    /\ idx = 0
    /\ stored = << >>
    /\ article_ids = << >>
    /\ calls = << >>
    /\ store_raised = {}

TIdle ==
    /\ tinput = EmptyText
    /\ tpc = "idle"
    /\ tonce = EmptyText
    /\ ttwice = EmptyText

SIdle ==
    /\ now = 0
    /\ last_request_time = 0
    /\ spc = "off"
    /\ wake_at = 0
    /\ sent_prev = -1
    /\ sent_last = -1

XInit ==
    /\ DIdle
    /\ PIdle
    /\ TIdle
    /\ SIdle
    /\ (TitleInput \/ AuthorInput \/ ContentInput \/ UrlInput)
    /\ xpc = "call"
    /\ xtitle = EmptyText
    /\ xauthor = EmptyText
    /\ xcontent = EmptyText
    /\ xresponse = NoResponse
    /\ xresult = None
    /\ xbest = << >>

XReturn(value) ==
    /\ xresult' = value
    /\ xpc' = IF value.is = "Exception" THEN "raised" ELSE "returned"

\* url = self._clean_url(url); the GET is sent
XClean ==
    /\ xpc = "call"
    /\ xurl' = _clean_url(xurl)
    /\ xpc' = "get"
    /\ UNCHANGED <<xpage, xtitle, xauthor, xcontent, xresponse, xresult, xbest>>

\* session.get raises (timeout, connection error)
XGetRaises ==
    /\ xpc = "get"
    /\ \E exc \in GetExceptions :
        /\ xresponse' = ResponseRaise(exc)
        /\ XReturn(HandleException(exc))
    /\ UNCHANGED <<xurl, xpage, xtitle, xauthor, xcontent, xbest>>

\* if response.status != 200: return None
XBadStatus ==
    /\ xpc = "get"
    /\ \E status \in BadStatuses :
        /\ status # 200
        /\ xresponse' = ResponseStatus(status)
        /\ XReturn(None)
    /\ UNCHANGED <<xurl, xpage, xtitle, xauthor, xcontent, xbest>>

\* status 200; await response.text() raises
XTextRaises ==
    /\ xpc = "get"
    /\ \E exc \in TextExceptions :
        /\ xresponse' = ResponseTextRaise(exc)
        /\ XReturn(HandleException(exc))
    /\ UNCHANGED <<xurl, xpage, xtitle, xauthor, xcontent, xbest>>

\* status 200; html = await response.text(); soup = BeautifulSoup(html)
XHtml ==
    /\ xpc = "get"
    /\ xresponse' = ResponseHtml(xpage)
    /\ xpc' = "title"
    /\ UNCHANGED <<xurl, xpage, xtitle, xauthor, xcontent, xresult, xbest>>

XTitle ==
    /\ xpc = "title"
    /\ xtitle' = _extract_title(xpage, xurl)
    /\ xpc' = "author"
    /\ UNCHANGED <<xurl, xpage, xauthor, xcontent, xresponse, xresult, xbest>>

XAuthor ==
    /\ xpc = "author"
    /\ xauthor' = _extract_author(xpage)
    /\ xpc' = "content"
    /\ UNCHANGED <<xurl, xpage, xtitle, xcontent, xresponse, xresult, xbest>>

XContent ==
    /\ xpc = "content"
    /\ xcontent' = _extract_main_content(xpage)
    /\ xbest' = BestSteps(xpage)
    /\ xpc' = "check"
    /\ UNCHANGED <<xurl, xpage, xtitle, xauthor, xresponse, xresult>>

\* lines 195-204
XCheck ==
    /\ xpc = "check"
    /\ XReturn(RecordOrNone(xtitle, xauthor, xcontent, xurl))
    /\ UNCHANGED <<xurl, xpage, xtitle, xauthor, xcontent, xresponse, xbest>>

XNext ==
    \/ XClean /\ UNCHANGED <<dvars, pvars, tvars, svars>>
    \/ XGetRaises /\ UNCHANGED <<dvars, pvars, tvars, svars>>
    \/ XBadStatus /\ UNCHANGED <<dvars, pvars, tvars, svars>>
    \/ XTextRaises /\ UNCHANGED <<dvars, pvars, tvars, svars>>
    \/ XHtml /\ UNCHANGED <<dvars, pvars, tvars, svars>>
    \/ XTitle /\ UNCHANGED <<dvars, pvars, tvars, svars>>
    \/ XAuthor /\ UNCHANGED <<dvars, pvars, tvars, svars>>
    \/ XContent /\ UNCHANGED <<dvars, pvars, tvars, svars>>
    \/ XCheck /\ UNCHANGED <<dvars, pvars, tvars, svars>>

SpecScrapeUrl == XInit /\ [][XNext]_vars

----------------------------------------------------------------------------
(* Properties of scrape_url and the extractor (SpecScrapeUrl) *)

TitleDone == xpc \in {"author", "content", "check"} \/ xresult.is = "dict"
AuthorDone == xpc \in {"content", "check"} \/ xresult.is = "dict"
ContentDone == xpc = "check" \/ xresult.is = "dict"

\* C5: the content _extract_main_content returns, and the content of every
\* record scrape_url returns, is at most 10,000 characters long, whichever of
\* the selector, paragraph and body steps produced it.
C5_ContentAtMost10000 ==
    /\ ContentDone => TLen(xcontent) <= ContentMaxLen
    /\ xresult.is = "dict" => TLen(xresult.content) <= ContentMaxLen

\* a record whose content came from a body text longer than 10,000 characters
C5_Witness ==
    /\ xresult.is = "dict"
    /\ TLen(ParagraphFallback(xpage, SelectorLoop(xpage.selected, EmptyText))) < BodyThreshold
    /\ ~IsNone(xpage.body)
    /\ TLen(xpage.body.text) > ContentMaxLen

C6_Order == <<xpage.h1, xpage.title, xpage.og_title, xpage.twitter_title, xpage.h2>>
C6_Qualifies(i) ==
    /\ ~IsNone(C6_Order[i])
    /\ TLen(Strip(C6_Order[i].text)) >= TitleMinLen + 1
C6_First == CHOOSE i \in 1..5 : C6_Qualifies(i) /\ \A j \in 1..(i - 1) : ~C6_Qualifies(j)

\* C6: the title is taken from the first of h1, title element, og:title,
\* twitter:title, h2 whose stripped text has at least 4 characters (its first
\* 200 characters); a shorter candidate is skipped; when none qualifies the
\* title is "Article from " followed by the network location of the url.
C6_TitleOrder ==
    TitleDone =>
        IF \E i \in 1..5 : C6_Qualifies(i)
        THEN xtitle = Take(Strip(C6_Order[C6_First].text), TitleMaxLen)
        ELSE xtitle = Concat(ArticleFromPrefix, netloc(xurl))

\* an <h1> of fewer than 4 characters was skipped for a later candidate
C6_Witness ==
    /\ TitleDone
    /\ ~IsNone(xpage.h1)
    /\ Strip(xpage.h1.text) # EmptyText
    /\ ~C6_Qualifies(1)
    /\ \E i \in 2..5 : C6_Qualifies(i)

\* C7: the title of every record scrape_url returns has at most 200
\* characters, the synthesized "Article from {host}" title included.
C7_TitleAtMost200 ==
    xresult.is = "dict" => TLen(xresult.title) <= TitleMaxLen

\* C8 as stated: _extract_author never returns a string that holds a
\* disallowed character, whichever strategy the candidate came from.
C8_NoDisallowedAuthor ==
    AuthorDone => ~HasDisallowed(xauthor)

\* C8 amended: a byline selector candidate holding a disallowed character is
\* rejected, so an author holding one can only be the content of the author
\* or article:author meta tag, which are checked for length alone.
C8_BylineFiltered ==
    AuthorDone =>
        (HasDisallowed(xauthor) =>
            \/ MetaQualifies(xpage.meta_author)
            \/ MetaQualifies(xpage.meta_article_author))

\* no meta author, and a byline that is well-formed but for a disallowed
\* character was passed over
C8_Witness ==
    /\ AuthorDone
    /\ ~MetaQualifies(xpage.meta_author)
    /\ ~MetaQualifies(xpage.meta_article_author)
    /\ \E i \in 1..Len(xpage.bylines) :
        /\ HasDisallowed(Strip(xpage.bylines[i]))
        /\ TLen(Strip(xpage.bylines[i])) > BylineMinLen
        /\ TLen(Strip(xpage.bylines[i])) < AuthorMaxLen
        /\ \A j \in 1..(i - 1) : TLen(Strip(xpage.bylines[j])) <= BylineMinLen

\* C9: scrape_url never raises: a non-200 status, a timeout, a network error
\* or any other exception ends in None being returned, with no record.
C9_NeverRaises ==
    /\ xpc # "raised"
    /\ xresult.is # "Exception"
    /\ (xpc = "returned" /\ xresponse.kind \in {"raise_get", "status", "raise_text"})
            => xresult = None

\* a timeout of the GET that ended in None
C9_Witness ==
    /\ xpc = "returned"
    /\ xresponse.kind = "raise_get"
    /\ xresponse.exc = "TimeoutError"
    /\ xresult = None

\* the url holds a scheme ("http://", "ftp://", "HTTP://", ...)
HasScheme(url) == Len(url.schemes) >= 1

\* C17: _clean_url prepends "https://" exactly when the url has no scheme and
\* returns a url that already has a scheme unchanged; it is idempotent; and
\* the source_url of the record scrape_url returns is this normalized url.
C17_CleanUrl ==
    [][ /\ (xpc = "call" /\ xpc' = "get") =>
            /\ xurl' = IF HasScheme(xurl) THEN xurl
                       ELSE [xurl EXCEPT !.schemes = <<"https">>]
            /\ _clean_url(xurl') = xurl'
        /\ xresult'.is = "dict" => xresult'.source_url = xurl'
      ]_vars

\* the elements matched by the content selectors whose text has at least
\* 100 characters
C18_Candidates ==
    {i \in 1..Len(xpage.selected) : TLen(xpage.selected[i]) >= 100}

\* C18: after the selector pass the best candidate is the longest text, of
\* at least 100 characters, among the elements any content selector matched;
\* a text of exactly 100 characters qualifies, and the best candidate is
\* absent only when no matched text reaches 100 characters.
C18_SelectorBest ==
    ContentDone =>
        IF C18_Candidates = {} THEN xbest.selectors = EmptyText
        ELSE \E i \in C18_Candidates :
                /\ xbest.selectors = xpage.selected[i]
                /\ \A k \in C18_Candidates :
                        TLen(xpage.selected[k]) <= TLen(xpage.selected[i])

\* ' '.join of the non-empty paragraph texts of the document
C19_ParagraphText == JoinSpace(NonEmpty(xpage.paragraphs))
\* the selector best candidate is absent or shorter than 200 characters
C19_Runs == xbest.selectors = EmptyText \/ TLen(xbest.selectors) < 200

\* C19: the paragraph fallback runs exactly when the selector best candidate
\* is absent or shorter than 200 characters, and the paragraph text replaces
\* the best candidate only when it is strictly longer; a best candidate of
\* 200 characters or more is never replaced.
C19_ParagraphFallback ==
    ContentDone =>
        /\ (C19_Runs /\ TLen(C19_ParagraphText) > TLen(xbest.selectors))
                => xbest.paragraphs = C19_ParagraphText
        /\ ~(C19_Runs /\ TLen(C19_ParagraphText) > TLen(xbest.selectors))
                => xbest.paragraphs = xbest.selectors
        /\ TLen(xbest.selectors) >= 200 => xbest.paragraphs = xbest.selectors

\* a selector candidate under 200 characters was replaced by longer
\* paragraph text
C19_Witness ==
    /\ ContentDone
    /\ xbest.selectors # EmptyText
    /\ TLen(xbest.selectors) < 200
    /\ xbest.paragraphs = C19_ParagraphText
    /\ TLen(xbest.paragraphs) > TLen(xbest.selectors)

\* the content after the selector and paragraph steps is absent or shorter
\* than 100 characters
C20_Short == xbest.paragraphs = EmptyText \/ TLen(xbest.paragraphs) < 100

\* C20: the whole-body fallback is used exactly when the content after the
\* selector and paragraph steps is absent or shorter than 100 characters (the
\* body text then replaces it, when the document has a body); content of 100
\* characters or more is returned unchanged up to truncation and is never
\* replaced by body text.
C20_BodyFallback ==
    ContentDone =>
        /\ (C20_Short /\ ~IsNone(xpage.body)) => xbest.body = xpage.body.text
        /\ (C20_Short /\ IsNone(xpage.body)) => xbest.body = xbest.paragraphs
        /\ ~C20_Short =>
                /\ xbest.body = xbest.paragraphs
                /\ xcontent = Take(xbest.paragraphs, 10000)

\* paragraph text of under 100 characters was replaced by the body text
C20_Witness ==
    /\ ContentDone
    /\ xbest.paragraphs # EmptyText
    /\ TLen(xbest.paragraphs) < 100
    /\ ~IsNone(xpage.body)
    /\ xbest.body = xpage.body.text
    /\ xbest.body # xbest.paragraphs
    /\ xcontent = xbest.body

\* the author candidates in the order of the strategies: the content of the
\* author meta tag, of the article:author meta property, then the texts of
\* the elements the byline selectors match
C21_Candidates ==
    <<xpage.meta_author, xpage.meta_article_author>>
        \o [i \in 1..Len(xpage.bylines) |-> Tag(xpage.bylines[i])]

C21_Text(i) == Strip(C21_Candidates[i].text)

\* a meta content qualifies when it is not empty and under 100 characters; a
\* byline text when its length is strictly between 2 and 100 and it holds
\* no disallowed character
C21_Qualifies(i) ==
    /\ ~IsNone(C21_Candidates[i])
    /\ C21_Text(i) # EmptyText
    /\ TLen(C21_Text(i)) < 100
    /\ i > 2 => (TLen(C21_Text(i)) > 2 /\ ~HasDisallowed(C21_Text(i)))

C21_Qualifying == {i \in 1..Len(C21_Candidates) : C21_Qualifies(i)}

\* C21: _extract_author returns the first qualifying candidate in the order
\* author meta tag, article:author meta property, byline selector matches; a
\* byline text is accepted only if its length is strictly between 2 and 100;
\* a rejected candidate never stops the search; the result is "Unknown"
\* exactly when no candidate of any strategy qualifies.
C21_AuthorOrder ==
    AuthorDone =>
        /\ C21_Qualifying # {} =>
                \E i \in C21_Qualifying :
                    /\ \A k \in C21_Qualifying : i <= k
                    /\ xauthor = C21_Text(i)
        /\ (xauthor = Unknown) <=> (C21_Qualifying = {})
        /\ \A i \in 1..Len(xpage.bylines) :
                xauthor = Strip(xpage.bylines[i]) =>
                    (TLen(xauthor) > 2 /\ TLen(xauthor) < 100)

\* an author meta tag with empty content and a byline of 2 characters were
\* passed over, and the next byline, of 99 characters, was returned
C21_Witness ==
    /\ AuthorDone
    /\ ~IsNone(xpage.meta_author)
    /\ C21_Qualifying = {4}
    /\ TLen(C21_Text(3)) = 2
    /\ TLen(C21_Text(4)) = 99
    /\ xauthor = C21_Text(4)

\* the matched elements whose text is as long as the longest matched text,
\* in the order the selector loops meet them
C22_Longest ==
    {i \in 1..Len(xpage.selected) :
        \A k \in 1..Len(xpage.selected) :
            TLen(xpage.selected[k]) <= TLen(xpage.selected[i])}

\* C22: content selection is first-seen-wins on ties: when several matched
\* elements have texts of the same maximal length, the best candidate of the
\* selector pass is the one met first, and a later one of equal length never
\* replaces it.
C22_FirstSeenWins ==
    (ContentDone /\ xbest.selectors # EmptyText) =>
        \E i \in C22_Longest :
            /\ \A k \in C22_Longest : i <= k
            /\ xbest.selectors = xpage.selected[i]

\* two matched elements with different texts of the same maximal length; the
\* first is the best candidate
C22_Witness ==
    /\ ContentDone
    /\ Len(xpage.selected) = 2
    /\ C22_Longest = {1, 2}
    /\ xpage.selected[1] # xpage.selected[2]
    /\ xbest.selectors = xpage.selected[1]

----------------------------------------------------------------------------
(* UniversalWebScraper.scrape_multiple_urls *)

MaxUrls == 3         \* longest urls list
MaxConcurrent == 2   \* largest max_concurrent

\* "site.com", "sites.com", ...: one host per position of the list
HostOf(i) == <<R("a", 3 + i), R("p", 1), R("a", 3)>>
UrlOf(i) == Url(IF i = 1 THEN << >> ELSE <<"https">>, HostOf(i))

\* a document whose every fallback yields 30 characters
ShortPage == [BasePage EXCEPT !.selected = << >>, !.body = Tag(Letters(30))]
\* a document with no text at all
EmptyPage == [BasePage EXCEPT !.selected = << >>]

\* what the GET of one item of a batch can answer
BatchResponses ==
    {ResponseRaise("TimeoutError"), ResponseRaise("ClientError"), ResponseStatus(404),
     ResponseHtml(BasePage), ResponseHtml(ShortPage), ResponseHtml(EmptyPage)}

SemaphoreInitOneMore(k) == k + 1
\* semaphore = asyncio.Semaphore(max_concurrent)
SemaphoreInit(k) == k

\* a task of the gather: order is its place in the order of completion
NewTask == [pc |-> "created", response |-> NoResponse, result |-> None, order |-> 0]

DInit ==
    /\ XIdle
    /\ PIdle
    /\ TIdle
    /\ SIdle
    /\ \E n \in 1..MaxUrls : urls = [i \in 1..n |-> UrlOf(i)]
    /\ max_concurrent \in 1..MaxConcurrent
    /\ semaphore = SemaphoreInit(max_concurrent)
    /\ waiters = << >>
    /\ tasks = [i \in 1..Len(urls) |-> NewTask]
    /\ gets = [i \in 1..Len(urls) |-> 0]
    /\ dpc = "gather"
    /\ articles = << >>

\* asyncio.Semaphore.locked(): no free slot, or somebody is queued already
Locked == semaphore = 0 \/ waiters # << >>

\* gather runs the tasks for the first time in the order of the list
FirstRun(i) ==
    /\ dpc = "gather"
    /\ i \in 1..Len(urls)
    /\ tasks[i].pc = "created"
    /\ \A j \in 1..(i - 1) : tasks[j].pc # "created"

\* async with semaphore finds a free slot; scrape_url sends the GET
StartAcquire(i) ==
    /\ FirstRun(i)
    /\ ~Locked
    /\ semaphore' = semaphore - 1
    /\ tasks' = [tasks EXCEPT ![i].pc = "inflight"]
    /\ gets' = [gets EXCEPT ![i] = @ + 1]
    /\ UNCHANGED <<urls, max_concurrent, waiters, dpc, articles>>

\* async with semaphore finds none: the task queues
StartWait(i) ==
    /\ FirstRun(i)
    /\ Locked
    /\ waiters' = Append(waiters, i)
    /\ tasks' = [tasks EXCEPT ![i].pc = "waiting"]
    /\ UNCHANGED <<urls, max_concurrent, semaphore, gets, dpc, articles>>

\* the oldest waiter is given the slot a release has freed; it sends the GET
WakeUp(i) ==
    /\ dpc = "gather"
    /\ waiters # << >>
    /\ i = Head(waiters)
    /\ semaphore > 0
    /\ semaphore' = semaphore - 1
    /\ waiters' = Tail(waiters)
    /\ tasks' = [tasks EXCEPT ![i].pc = "inflight"]
    /\ gets' = [gets EXCEPT ![i] = @ + 1]
    /\ UNCHANGED <<urls, max_concurrent, dpc, articles>>

AfterResponseRetry(response) == IF response.kind = "html" THEN "done" ELSE "created"
\* scrape_url returns after its one GET, whatever the answer
AfterResponse(response) == "done"

ReleaseOnRecordOnly(value, result) == IF result.is = "dict" THEN value + 1 ELSE value
\* async with semaphore: __aexit__ releases the slot, whatever scrape_url
\* returned or raised
Release(value, result) == value + 1

\* the tasks that have completed
Done == {j \in 1..Len(tasks) : tasks[j].pc = "done"}

\* the GET of item i is answered; scrape_url returns and the slot is released
Respond(i) ==
    /\ dpc = "gather"
    /\ i \in 1..Len(urls)
    /\ tasks[i].pc = "inflight"
    /\ \E response \in BatchResponses :
        LET result == scrape_url(urls[i], response)
        IN  /\ tasks' = [tasks EXCEPT ![i] =
                        [pc |-> AfterResponse(response), response |-> response,
                         result |-> result, order |-> Cardinality(Done) + 1]]
            /\ semaphore' = Release(semaphore, result)
    /\ UNCHANGED <<urls, max_concurrent, waiters, gets, dpc, articles>>

\* asyncio.gather(*tasks, return_exceptions=True)
return_exceptions == TRUE

GatherResultsAsCompleted(ts) ==
    [n \in 1..Len(ts) |-> ts[CHOOSE i \in 1..Len(ts) : ts[i].order = n].result]
\* results = await asyncio.gather(*tasks): the results in the order of the
\* awaitables
GatherResults(ts) == [i \in 1..Len(ts) |-> ts[i].result]

CollectNotException(results) == SelectSeq(results, LAMBDA r : r.is # "Exception")
\* the loop of lines 224-229: the dicts among the results, in their order
CollectArticles(results) == SelectSeq(results, LAMBDA r : r.is = "dict")

\* every task is done: gather returns, the articles are collected and returned
GatherReturn ==
    /\ dpc = "gather"
    /\ \A i \in 1..Len(urls) : tasks[i].pc = "done"
    /\ LET results == GatherResults(tasks)
       IN  IF ~return_exceptions /\ \E i \in 1..Len(urls) : results[i].is = "Exception"
           THEN dpc' = "raised" /\ articles' = articles
           ELSE dpc' = "returned" /\ articles' = CollectArticles(results)
    /\ UNCHANGED <<urls, max_concurrent, semaphore, waiters, tasks, gets>>

DNext ==
    \/ \E i \in 1..MaxUrls : StartAcquire(i) /\ UNCHANGED <<xvars, pvars, tvars, svars>>
    \/ \E i \in 1..MaxUrls : StartWait(i) /\ UNCHANGED <<xvars, pvars, tvars, svars>>
    \/ \E i \in 1..MaxUrls : WakeUp(i) /\ UNCHANGED <<xvars, pvars, tvars, svars>>
    \/ \E i \in 1..MaxUrls : Respond(i) /\ UNCHANGED <<xvars, pvars, tvars, svars>>
    \/ GatherReturn /\ UNCHANGED <<xvars, pvars, tvars, svars>>

SpecDispatch == DInit /\ [][DNext]_vars

----------------------------------------------------------------------------
(* Properties of scrape_multiple_urls (SpecDispatch) *)

Items == 1..Len(urls)
InFlight == {i \in Items : tasks[i].pc = "inflight"}

\* C1: with max_concurrent = k >= 1, at most k scrape_url operations are in
\* flight in every reachable state; the other items wait.
C1_AtMostKInFlight ==
    Cardinality(InFlight) <= max_concurrent

\* more urls than slots: every slot is taken and an item waits
C1_Witness ==
    /\ Len(urls) > max_concurrent
    /\ Cardinality(InFlight) = max_concurrent
    /\ \E i \in Items : tasks[i].pc = "waiting"

\* the item got a page whose content, after every fallback, has 50 characters
Succeeded(i) ==
    /\ tasks[i].response.kind = "html"
    /\ TLen(BestContent(tasks[i].response.soup)) >= MinContentLen

RecordsFor(i) == {j \in 1..Len(articles) : articles[j].source_url = _clean_url(urls[i])}

\* C2: whichever items fail, scrape_multiple_urls returns without raising, and
\* the result holds exactly one record for each item that succeeded, the
\* record scrape_url built for it, and none for an item that failed.
C2_FailuresIsolated ==
    /\ dpc # "raised"
    /\ dpc = "returned" =>
        /\ \A j \in 1..Len(articles) : articles[j].is = "dict"
        /\ \A i \in Items :
            IF Succeeded(i)
            THEN /\ Cardinality(RecordsFor(i)) = 1
                 /\ \A j \in RecordsFor(i) :
                        articles[j] = scrape_url(urls[i], tasks[i].response)
            ELSE RecordsFor(i) = {}
        /\ Len(articles) = Cardinality({i \in Items : Succeeded(i)})

\* a returned batch in which an item timed out and a sibling succeeded
C2_Witness ==
    /\ dpc = "returned"
    /\ \E i, j \in Items :
        /\ tasks[i].response = ResponseRaise("TimeoutError")
        /\ Succeeded(j)
        /\ Len(articles) >= 1

\* C10: no retry: each item of one scrape_multiple_urls call causes exactly
\* one GET, whether it succeeds or fails; once it is sent no other follows.
C10_OneGetPerItem ==
    /\ \A i \in Items : gets[i] <= 1
    /\ \A i \in Items : tasks[i].pc \in {"inflight", "done"} => gets[i] = 1
    /\ dpc = "returned" => \A i \in Items : gets[i] = 1

\* a returned batch with a failed item, for which one GET was sent
C10_Witness ==
    /\ dpc = "returned"
    /\ \E i \in Items : ~Succeeded(i) /\ gets[i] = 1

\* scrape_multiple_urls under the scheduling of the event loop: a task that
\* is ready to run is run, a waiter whose slot is free is woken, gather
\* returns once every task is done; and every fetch ends (by a response, an
\* error or the timeout of scrape_url)
SpecDispatchFair ==
    /\ DInit /\ [][DNext]_vars
    /\ \A i \in 1..MaxUrls :
        /\ WF_vars(StartAcquire(i) /\ UNCHANGED <<xvars, pvars, tvars, svars>>)
        /\ WF_vars(StartWait(i) /\ UNCHANGED <<xvars, pvars, tvars, svars>>)
        /\ WF_vars(WakeUp(i) /\ UNCHANGED <<xvars, pvars, tvars, svars>>)
        /\ WF_vars(Respond(i) /\ UNCHANGED <<xvars, pvars, tvars, svars>>)
    /\ WF_vars(GatherReturn /\ UNCHANGED <<xvars, pvars, tvars, svars>>)

\* item i of the list is at pc
At(i, pc) == i \in Items /\ tasks[i].pc = pc

\* C23: for k >= 1 and a finite list whose every fetch ends, every queued
\* item eventually acquires a slot and runs; a slot is taken by exactly the
\* items in flight, so every exit path of an item releases it; an item
\* granted a slot completes whatever the other items do;
\* scrape_multiple_urls terminates, and on return all k slots are free.
C23_Progress ==
    /\ [](semaphore + Cardinality(InFlight) = max_concurrent)
    /\ \A i \in 1..MaxUrls : At(i, "waiting") ~> At(i, "inflight")
    /\ \A i \in 1..MaxUrls : At(i, "inflight") ~> At(i, "done")
    /\ <>(dpc = "returned")
    /\ [](dpc = "returned" =>
            /\ semaphore = max_concurrent
            /\ waiters = << >>
            /\ \A i \in Items : tasks[i].pc = "done")

\* an item failed and released its slot while another item is queued for it
C23_Witness ==
    /\ dpc = "gather"
    /\ semaphore > 0
    /\ \E i, j \in Items :
        /\ tasks[i].pc = "waiting"
        /\ tasks[j].pc = "done"
        /\ tasks[j].result = None

\* the position in the input list of the url a record was scraped from
ItemOf(record) == CHOOSE i \in Items : _clean_url(urls[i]) = record.source_url

\* C24: the records scrape_multiple_urls returns are in the relative order
\* of their urls in the input list, whatever order the fetches completed in:
\* the result is the input-ordered sequence of the items' outcomes with the
\* failures removed.
C24_InputOrder ==
    dpc = "returned" =>
        /\ \A j \in 1..Len(articles) :
                /\ \E i \in Items : _clean_url(urls[i]) = articles[j].source_url
                /\ articles[j] = tasks[ItemOf(articles[j])].result
        /\ \A j, k \in 1..Len(articles) :
                j < k => ItemOf(articles[j]) < ItemOf(articles[k])

\* a returned batch with two records whose fetches completed in the reverse
\* of the input order
C24_Witness ==
    /\ dpc = "returned"
    /\ \E j, k \in 1..Len(articles) :
        /\ j < k
        /\ tasks[ItemOf(articles[j])].order > tasks[ItemOf(articles[k])].order

----------------------------------------------------------------------------
(* TextProcessor.preprocess_text *)

\* BeautifulSoup(text, 'html.parser').get_text(): the tags go, and an escaped
\* tag (&lt;b&gt;) becomes its characters (<b>), 6 fewer
GetText(text) ==
    LET kept == SelectSeq(text, LAMBDA r : r.c # "t")
    IN  Norm([i \in 1..Len(kept) |->
                IF kept[i].c = "e" THEN R("t", kept[i].n - 6) ELSE kept[i]])

\* re.sub(r'\s+', ' ', text)
RECURSIVE CollapseWhitespace(_)
CollapseWhitespace(text) ==
    IF text = << >> THEN text
    ELSE IF Head(text).c \in WhiteClasses
         THEN <<R("s", 1)>> \o CollapseWhitespace(LStrip(Tail(text)))
         ELSE <<Head(text)>> \o CollapseWhitespace(Tail(text))

\* re.sub(r'\n+', '\n', text)
CollapseNewlines(text) ==
    [i \in 1..Len(text) |-> IF text[i].c = "n" THEN R("n", 1) ELSE text[i]]

\* str.lower()
Lower(text) ==
    Norm([i \in 1..Len(text) |-> IF text[i].c = "A" THEN R("a", text[i].n) ELSE text[i]])

preprocess_text(text) ==
    IF text = EmptyText THEN EmptyText
    ELSE Lower(CollapseNewlines(Strip(CollapseWhitespace(GetText(text)))))

----------------------------------------------------------------------------
(* Source adapters and WebScraper.scrape_articles *)

MaxEntries == 2     \* entries of an API listing (stories, posts, quotes)
MaxLimit == 3       \* largest limit argument
HNSnippetLen == 1000   \* scraped['content'][:1000]

Min(a, b) == IF a < b THEN a ELSE b
\* seq[:k]
Prefix(seq, k) == SubSeq(seq, 1, Min(k, Len(seq)))

\* the listing request of an adapter answers [kind |-> "raise"] (session.get
\* or the parsing raised), [kind |-> "status", entries |-> ...] (a status
\* other than 200, with whatever body) or [kind |-> "ok", entries |-> ...]
StatusOkAny(listing) == TRUE
\* the negation of "if response.status != 200"
StatusOk(listing) == listing.kind = "ok"

\* except Exception as e: log, return []
ExceptEmpty == << >>

Url3(schemes, host, path) == [schemes |-> schemes, host |-> host, path |-> path]

\* scrape_multiple_urls as one call: gather returns the results in the order
\* of the urls, and the dicts among them are collected
ScrapeMultiple(us, responses) ==
    CollectArticles([i \in 1..Len(us) |-> scrape_url(us[i], responses[i])])

\* "..."
Ellipsis == <<R("p", 3)>>
\* "news.ycombinator.com", "/item?id=" and an id of k digits ("0" is a digit)
HNHost == <<R("a", 4), R("p", 1), R("a", 11), R("p", 1), R("a", 3)>>
HNItemPath(story_id) ==
    <<R("p", 1), R("a", 4), R("p", 1), R("a", 2), R("p", 1), R("0", story_id)>>

\* lines 294-303: the content of a story; response is what the GET of its
\* url answers
HNContent(story, response) ==
    LET content == IF story.text # EmptyText THEN story.text ELSE story.title
    IN  IF ~IsNone(story.url) /\ story.text = EmptyText
        THEN LET scraped_story == scrape_url(story.url.text, response)
             IN  IF scraped_story.is = "dict" /\ scraped_story.content # EmptyText
                 THEN Concat(Take(scraped_story.content, HNSnippetLen), Ellipsis)
                 ELSE content
        ELSE content

\* the loop of lines 288-315 from story number story_id on
RECURSIVE HNLoop(_, _)
HNLoop(entries, story_id) ==
    IF entries = << >> THEN << >>
    ELSE LET e == Head(entries)
             rest == HNLoop(Tail(entries), story_id + 1)
         IN  IF e.kind = "story" /\ e.story.title # EmptyText
             THEN <<Article(e.story.title,
                            IF e.story.by = EmptyText THEN Unknown ELSE e.story.by,
                            HNContent(e.story, e.response),
                            Url3(<<"https">>, HNHost, HNItemPath(story_id)))>> \o rest
             ELSE rest

scrape_hackernews_api(listing, lim) ==
    IF listing.kind = "raise" THEN ExceptEmpty
    ELSE IF ~StatusOk(listing) THEN << >>
    ELSE HNLoop(Prefix(listing.entries, lim), 1)

\* "Reddit post: ", "u/", "reddit.com"
RedditPostPrefix == <<R("A", 1), R("a", 5), R("s", 1), R("a", 4), R("p", 1), R("s", 1)>>
UserPrefix == <<R("a", 1), R("p", 1)>>
RedditHost == <<R("a", 6), R("p", 1), R("a", 3)>>

\* the loop of lines 254-268
RECURSIVE RedditLoop(_)
RedditLoop(posts) ==
    IF posts = << >> THEN << >>
    ELSE LET post_data == Head(posts)
         IN  IF post_data.is_self /\ post_data.selftext = EmptyText
             THEN RedditLoop(Tail(posts))
             ELSE <<Article(post_data.title,
                            Concat(UserPrefix, post_data.author),
                            IF post_data.selftext # EmptyText
                            THEN post_data.selftext
                            ELSE Concat(RedditPostPrefix, post_data.title),
                            Url3(<<"https">>, RedditHost, post_data.permalink))>>
                  \o RedditLoop(Tail(posts))

scrape_reddit_rss(listing, lim) ==
    IF listing.kind = "raise" THEN ExceptEmpty
    ELSE IF ~StatusOk(listing) THEN << >>
    ELSE RedditLoop(Prefix(listing.entries, lim))

\* "Quote by ", "\n\nTags: ", ", ", "quotes.toscrape.com"
QuoteByPrefix == <<R("A", 1), R("a", 4), R("s", 1), R("a", 2), R("s", 1)>>
TagsPrefix == <<R("n", 2), R("A", 1), R("a", 3), R("p", 1), R("s", 1)>>
CommaSpace == <<R("p", 1), R("s", 1)>>
QuotesHost == <<R("a", 6), R("p", 1), R("a", 8), R("p", 1), R("a", 3)>>

\* ', '.join(tags)
RECURSIVE JoinComma(_)
JoinComma(tags) ==
    IF tags = << >> THEN EmptyText
    ELSE IF Len(tags) = 1 THEN Head(tags)
    ELSE Concat(Concat(Head(tags), CommaSpace), JoinComma(Tail(tags)))

\* the loop of lines 581-596
RECURSIVE QuotesLoop(_)
QuotesLoop(quotes) ==
    IF quotes = << >> THEN << >>
    ELSE LET quote == Head(quotes)
         IN  IF ~IsNone(quote.text_elem) /\ ~IsNone(quote.author_elem)
             THEN <<Article(Concat(QuoteByPrefix, quote.author_elem.text),
                            quote.author_elem.text,
                            Concat(Concat(quote.text_elem.text, TagsPrefix),
                                   JoinComma(quote.tags)),
                            [schemes |-> <<"http">>, host |-> QuotesHost,
                             path |-> EmptyText])>>
                  \o QuotesLoop(Tail(quotes))
             ELSE QuotesLoop(Tail(quotes))

scrape_quotes_toscrape(listing, lim) ==
    IF listing.kind = "raise" THEN ExceptEmpty
    ELSE IF ~StatusOk(listing) THEN << >>
    ELSE QuotesLoop(Prefix(listing.entries, lim))

\* scrape_articles: the source decides the adapter; fetch is what the
\* adapter's GETs answer
scrape_articles(src, lim, fetch) ==
    CASE src.kind = "quotes" -> scrape_quotes_toscrape(fetch, lim)
      [] src.kind = "hackernews" -> scrape_hackernews_api(fetch, lim)
      [] src.kind = "reddit" -> scrape_reddit_rss(fetch, lim)
      [] src.kind = "urls" -> ScrapeMultiple(Prefix(src.urls, lim), fetch)
      [] src.kind = "url" ->
            LET result == scrape_url(src.urls[1], fetch[1])
            IN  IF result.is = "dict" THEN <<result>> ELSE << >>
      [] OTHER -> << >>

----------------------------------------------------------------------------
(* Inputs of process_articles *)

\* 60 characters of prose laid out over two lines: 20 letters, a newline and
\* 14 spaces of indentation, 25 letters
WrappedText == <<R("a", 20), R("n", 1), R("s", 14), R("a", 25)>>
WrappedPage == [BasePage EXCEPT !.selected = << >>, !.paragraphs = <<WrappedText>>]

\* what the GET of a url of the source can answer
PageResponses ==
    {ResponseRaise("TimeoutError"), ResponseStatus(404), ResponseHtml(BasePage),
     ResponseHtml(ShortPage), ResponseHtml(EmptyPage), ResponseHtml(WrappedPage)}

Sources ==
    {[kind |-> k] : k \in {"quotes", "hackernews", "reddit", "unknown"}}
        \cup {[kind |-> "url", urls |-> <<UrlOf(1)>>]}
        \cup {[kind |-> "urls", urls |-> [i \in 1..n |-> UrlOf(i)]] : n \in 2..MaxUrls}

Listings(entries) ==
    {[kind |-> "raise"]} \cup
    {[kind |-> k, entries |-> e] : k \in {"ok", "status"},
                                  e \in SeqsUpTo(entries, MaxEntries)}

\* "Show HN", and a comment of 80 characters that holds two tags
ShowHN == <<R("A", 1), R("a", 3), R("s", 1), R("A", 2)>>
HNText == <<R("a", 40), R("t", 3), R("a", 30), R("t", 4), R("a", 3)>>
Story(text, url) == [title |-> ShowHN, text |-> text, url |-> url, by |-> Letters(5)]
HNEntries ==
    {[kind |-> "raise"], [kind |-> "null"],
     [kind |-> "story", story |-> Story(EmptyText, None), response |-> NoResponse],
     [kind |-> "story", story |-> Story(HNText, None), response |-> NoResponse],
     [kind |-> "story", story |-> Story(EmptyText, Tag(UrlOf(1))),
      response |-> ResponseHtml(BasePage)],
     [kind |-> "story", story |-> Story(EmptyText, Tag(UrlOf(1))),
      response |-> ResponseHtml(EmptyPage)]}

Post(is_self, selftext) ==
    [is_self |-> is_self, selftext |-> selftext, title |-> Capitalized(12),
     author |-> Letters(6), permalink |-> PathX]
RedditEntries ==
    {Post(TRUE, EmptyText), Post(TRUE, Letters(80)), Post(TRUE, Letters(10)),
     Post(FALSE, EmptyText)}

Quote(text_elem, tags) ==
    [text_elem |-> text_elem, author_elem |-> Tag(JaneDoe), tags |-> tags]
QuotesEntries ==
    {Quote(None, << >>), Quote(Tag(Capitalized(20)), << >>),
     Quote(Tag(Capitalized(70)), <<Letters(4), Letters(5)>>)}

\* what the GETs of scrape_articles can answer for the source
Fetches(src, lim) ==
    CASE src.kind = "quotes" -> Listings(QuotesEntries)
      [] src.kind = "hackernews" -> Listings(HNEntries)
      [] src.kind = "reddit" -> Listings(RedditEntries)
      [] src.kind \in {"url", "urls"} ->
            [1..Min(lim, Len(src.urls)) -> PageResponses]
      [] OTHER -> {<< >>}

----------------------------------------------------------------------------
(* GeminiSummarizer.summarize_text and DatabaseManager.store_article *)

SummaryOutcomes == {"text", "empty", "exception"}

\* a Python str
Str(s) == [is |-> "str", s |-> s]

EmptyResponseBlank == Str("")
\* lines 548-550: the response holds no text
EmptyResponse == Str("Summary could not be generated.")

\* lines 552-554: except Exception
SummarizeExcept(exc) == Str("Error generating summary: " \o exc)

\* the value summarize_text returns for what the API call did; a response
\* with text goes through postprocess_summary
summarize_text(text, outcome) ==
    CASE outcome = "text" -> Str("summary")
      [] outcome = "empty" -> EmptyResponse
      [] outcome = "exception" -> SummarizeExcept("APIError")

\* the row of the INSERT
Row(data) ==
    [title |-> data.title, author |-> data.author, content |-> data.content,
     summary |-> data.summary, source_url |-> data.source_url]

----------------------------------------------------------------------------
(* ArticleProcessor.process_articles *)

PInit ==
    /\ XIdle
    /\ DIdle
    /\ TIdle
    /\ SIdle
    /\ source \in Sources
    /\ limit \in 1..MaxLimit
    /\ summarizer \in BOOLEAN
    /\ ppc = "scrape"
    /\ fetched = << >>
    /\ scraped = << >>
    /\ idx = 0
    /\ stored = << >>
    /\ article_ids = << >>
    /\ calls = << >>
    /\ store_raised = {}

\* articles = await scraper.scrape_articles(source, limit)
Scrape ==
    /\ ppc = "scrape"
    /\ \E fetch \in Fetches(source, limit) :
        /\ fetched' = fetch
        /\ scraped' = scrape_articles(source, limit, fetch)
    /\ idx' = 1
    /\ ppc' = "loop"
    /\ UNCHANGED <<source, limit, summarizer, stored, article_ids, calls, store_raised>>

\* lines 668-675: article['summary']
SummaryOf(clean_content, outcome) ==
    IF clean_content # EmptyText /\ summarizer
    THEN LET summary == summarize_text(clean_content, outcome)
         IN  IF summary.is = "Exception" THEN "Summary generation failed"
             ELSE summary.s
    ELSE "No summary available"

\* what the summarization call of the round did: "none" when it is not made
CallOf(clean_content, outcome) ==
    IF clean_content # EmptyText /\ summarizer THEN outcome ELSE "none"

\* lines 663-675: the article with its content normalized and its summary set
Processed(article, outcome) ==
    LET clean_content == preprocess_text(article.content)
    IN  [is |-> "dict", title |-> article.title, author |-> article.author,
         content |-> clean_content, source_url |-> article.source_url,
         summary |-> SummaryOf(clean_content, outcome)]

\* one round of the for loop; store_article inserts the row
ProcessStore ==
    /\ ppc = "loop"
    /\ idx <= Len(scraped)
    /\ \E outcome \in SummaryOutcomes :
        LET article == Processed(scraped[idx], outcome)
        IN  /\ scraped' = [scraped EXCEPT ![idx] = article]
            /\ calls' = Append(calls, CallOf(article.content, outcome))
            /\ stored' = Append(stored, Row(article))
            /\ article_ids' = Append(article_ids, Len(stored) + 1)
    /\ idx' = idx + 1
    /\ UNCHANGED <<source, limit, summarizer, ppc, fetched, store_raised>>

\* one round of the for loop; store_article raises, which line 683 catches:
\* the error is logged and the loop goes on
ProcessStoreFails ==
    /\ ppc = "loop"
    /\ idx <= Len(scraped)
    /\ \E outcome \in SummaryOutcomes :
        LET article == Processed(scraped[idx], outcome)
        IN  /\ scraped' = [scraped EXCEPT ![idx] = article]
            /\ calls' = Append(calls, CallOf(article.content, outcome))
    /\ store_raised' = store_raised \cup {idx}
    /\ idx' = idx + 1
    /\ UNCHANGED <<source, limit, summarizer, ppc, fetched, stored, article_ids>>

\* return article_ids
Return ==
    /\ ppc = "loop"
    /\ idx > Len(scraped)
    /\ ppc' = "returned"
    /\ UNCHANGED <<source, limit, summarizer, fetched, scraped, idx, stored, article_ids,
                   calls, store_raised>>

Next ==
    \/ Scrape /\ UNCHANGED <<xvars, dvars, tvars, svars>>
    \/ ProcessStore /\ UNCHANGED <<xvars, dvars, tvars, svars>>
    \/ ProcessStoreFails /\ UNCHANGED <<xvars, dvars, tvars, svars>>
    \/ Return /\ UNCHANGED <<xvars, dvars, tvars, svars>>

Spec == PInit /\ [][Next]_vars

----------------------------------------------------------------------------
(* Properties of process_articles (Spec) *)

\* the items of a url source whose GET has been answered
UrlItems == IF source.kind \in {"url", "urls"} THEN 1..Len(fetched) ELSE {}

\* the item's page yields, after every fallback, nothing or under 50 characters
ShortContent(i) ==
    /\ fetched[i].kind = "html"
    /\ TLen(BestContent(fetched[i].soup)) < MinContentLen

PlaceholderContents ==
    {NoContentExtracted, preprocess_text(NoContentExtracted),
     Concat(NoContentExtracted, Ellipsis),
     preprocess_text(Concat(NoContentExtracted, Ellipsis))}

\* C3: when the content left after every fallback is empty or shorter than 50
\* characters, scrape_url yields no record: the item is absent from the
\* batch result and no row is stored for it; the extractor's "No content
\* extracted" outcome never becomes the content of a record or of a row.
C3_ShortContentNoRecord ==
    /\ \A i \in UrlItems :
        ShortContent(i) =>
            /\ \A j \in 1..Len(scraped) :
                    scraped[j].source_url # _clean_url(source.urls[i])
            /\ \A j \in 1..Len(stored) :
                    stored[j].source_url # _clean_url(source.urls[i])
    /\ \A j \in 1..Len(scraped) : scraped[j].content \notin PlaceholderContents
    /\ \A j \in 1..Len(stored) : stored[j].content \notin PlaceholderContents

\* a finished run over a url list: one page had 30 characters, one no text,
\* and a sibling's record was stored
C3_Witness ==
    /\ ppc = "returned"
    /\ source.kind = "urls"
    /\ \E i, j \in UrlItems :
        /\ fetched[i] = ResponseHtml(ShortPage)
        /\ fetched[j] = ResponseHtml(EmptyPage)
    /\ Len(stored) >= 1

\* C4: every record handed to store_article has content of at least 50
\* characters, measured as stored (after preprocess_text), whichever source
\* produced it.
C4_StoredContentAtLeast50 ==
    \A j \in 1..Len(stored) : TLen(stored[j].content) >= MinContentLen

\* C12: when store_article raises, the failure reaches the caller of
\* process_articles: the workflow does not return normally after a store
\* failure that was only logged.
C12_StoreFailurePropagates ==
    ppc = "returned" => store_raised = {}

\* the strings that stand for a summary that could not be made
SummaryPlaceholders ==
    {"Summary could not be generated.", "Error generating summary: APIError",
     "Summary generation failed"}

\* the row of item j when store_article did not raise for it
RowOf(j) == Cardinality({i \in 1..j : i \notin store_raised})

\* C13: a failed summarization call (exception or empty response) gives the
\* item a placeholder summary, the item is stored with that placeholder, and
\* the loop goes on to the remaining items.
C13_FailureYieldsPlaceholder ==
    /\ \A j \in 1..Len(calls) :
        calls[j] \in {"empty", "exception"} =>
            /\ scraped[j].summary \in SummaryPlaceholders
            /\ j \notin store_raised =>
                    /\ RowOf(j) \in 1..Len(stored)
                    /\ stored[RowOf(j)] = Row(scraped[j])
                    /\ RowOf(j) \in {article_ids[k] : k \in 1..Len(article_ids)}
    /\ ppc = "returned" => Len(calls) = Len(scraped)

\* a finished run in which the call failed for one item, by an exception or
\* an empty response, that item was stored and a later item was summarized
\* and stored
C13_Witness ==
    /\ ppc = "returned"
    /\ \E j, k \in 1..Len(calls) :
        /\ j < k
        /\ calls[j] \in {"empty", "exception"}
        /\ calls[k] = "text"
        /\ {j, k} \cap store_raised = {}
        /\ stored[RowOf(j)].summary \in SummaryPlaceholders
        /\ stored[RowOf(k)].summary = "summary"

ListingSources == {"quotes", "hackernews", "reddit"}

\* C15: scrape_reddit_rss filters out the link-only posts without body text:
\* a link post with empty selftext produces no record, and the content of
\* every returned record is the body text (selftext) of its post.
C15_LinkOnlyPostsFiltered ==
    (source.kind = "reddit" /\ ppc = "loop" /\ idx = 1 /\ fetched.kind = "ok") =>
        LET posts == Prefix(fetched.entries, limit)
            kept == SelectSeq(posts, LAMBDA post : post.selftext # EmptyText)
        IN  /\ Len(scraped) = Len(kept)
            /\ \A j \in 1..Len(scraped) : scraped[j].content = kept[j].selftext

\* C16: every adapter reached through scrape_articles returns a list and
\* never raises, so that process_articles goes on to its loop; the list is
\* empty when the adapter's listing request failed (an exception or a status
\* other than 200), when the source is unknown, and when no GET of a url
\* source answered a page.
C16_AdaptersReturnLists ==
    ppc # "scrape" =>
        /\ ppc \in {"loop", "returned"}
        /\ DOMAIN scraped = 1..Len(scraped)
        /\ \A j \in 1..Len(scraped) : scraped[j].is = "dict"
        /\ (source.kind \in ListingSources /\ fetched.kind \in {"raise", "status"})
                => scraped = << >>
        /\ source.kind = "unknown" => scraped = << >>
        /\ (source.kind \in {"url", "urls"}
                /\ \A i \in 1..Len(fetched) : fetched[i].kind # "html")
                => scraped = << >>

\* a listing request answered a status other than 200 with entries in its
\* body, and the adapter returned the empty list
C16_Witness ==
    /\ ppc = "loop"
    /\ source.kind \in ListingSources
    /\ fetched.kind = "status"
    /\ Len(fetched.entries) >= 1
    /\ scraped = << >>

----------------------------------------------------------------------------
(* TextProcessor.preprocess_text applied to a text, and to its own result *)

MaxRuns == 3    \* runs of one character class in an input text

\* "ab", "A", two spaces, a newline, <b>, &lt;b&gt;
InputRuns == {R("a", 2), R("A", 1), R("s", 2), R("n", 1), R("t", 3), R("e", 9)}

TInit ==
    /\ XIdle
    /\ DIdle
    /\ PIdle
    /\ SIdle
    /\ \E t \in SeqsUpTo(InputRuns, MaxRuns) : tinput = Norm(t)
    /\ tpc = "call"
    /\ tonce = EmptyText
    /\ ttwice = EmptyText

\* clean_content = preprocess_text(text)
TFirst ==
    /\ tpc = "call"
    /\ tonce' = preprocess_text(tinput)
    /\ tpc' = "once"
    /\ UNCHANGED <<tinput, ttwice>>

\* preprocess_text(clean_content)
TSecond ==
    /\ tpc = "once"
    /\ ttwice' = preprocess_text(tonce)
    /\ tpc' = "twice"
    /\ UNCHANGED <<tinput, tonce>>

TNext ==
    \/ TFirst /\ UNCHANGED <<xvars, dvars, pvars, svars>>
    \/ TSecond /\ UNCHANGED <<xvars, dvars, pvars, svars>>

SpecPreprocess == TInit /\ [][TNext]_vars

----------------------------------------------------------------------------
(* Properties of preprocess_text (SpecPreprocess) *)

\* C11: preprocess_text is idempotent: for every input text x (with markup,
\* escaped markup, mixed case, runs of whitespace),
\* preprocess_text(preprocess_text(x)) = preprocess_text(x).
C11_Idempotent ==
    tpc = "twice" => ttwice = tonce

----------------------------------------------------------------------------
(* GeminiSummarizer.summarize_text: the rate limiting of its requests.      *)
(* time.time() is counted in ticks, TicksPerSecond of them to a second.     *)

rate_limit_delay == 1    \* self.rate_limit_delay = 1 (seconds)
TicksPerSecond == 2      \* resolution of the clock
MaxTime == 6             \* the clock stops here

Delay == rate_limit_delay * TicksPerSecond

\* __init__, and the first call long after the epoch
SInit ==
    /\ XIdle
    /\ DIdle
    /\ PIdle
    /\ TIdle
    /\ now = Delay
    /\ last_request_time = 0
    /\ spc = "idle"
    /\ wake_at = 0
    /\ sent_prev = -1
    /\ sent_last = -1

\* the request goes to the API (generate_content_stream, line 537)
Send ==
    /\ spc' = "request"
    /\ sent_prev' = sent_last
    /\ sent_last' = now

\* time passes, in a request, in a sleep or between two calls
STick ==
    /\ now < MaxTime
    /\ now' = now + 1
    /\ UNCHANGED <<last_request_time, spc, wake_at, sent_prev, sent_last>>

\* lines 503-507: a call of summarize_text; it sleeps when the last
\* recorded request is less than rate_limit_delay old, else sends at once
SEnter ==
    /\ spc = "idle"
    /\ LET time_since_last == now - last_request_time
       IN  IF time_since_last < Delay
           THEN /\ spc' = "sleep"
                /\ wake_at' = now + (Delay - time_since_last)
                /\ UNCHANGED <<sent_prev, sent_last>>
           ELSE /\ Send
                /\ UNCHANGED wake_at
    /\ UNCHANGED <<now, last_request_time>>

\* asyncio.sleep returns, not before it is due; the request is sent
SWake ==
    /\ spc = "sleep"
    /\ now >= wake_at
    /\ Send
    /\ UNCHANGED <<now, last_request_time, wake_at>>

\* the stream ends, with text or without: line 544 records the time
SResponse ==
    /\ spc = "request"
    /\ last_request_time' = now
    /\ spc' = "idle"
    /\ UNCHANGED <<now, wake_at, sent_prev, sent_last>>

\* the API call raises: line 552 catches it and line 544 is not reached
SRaises ==
    /\ spc = "request"
    /\ spc' = "idle"
    /\ UNCHANGED <<now, last_request_time, wake_at, sent_prev, sent_last>>

SNext ==
    \/ STick /\ UNCHANGED <<xvars, dvars, pvars, tvars>>
    \/ SEnter /\ UNCHANGED <<xvars, dvars, pvars, tvars>>
    \/ SWake /\ UNCHANGED <<xvars, dvars, pvars, tvars>>
    \/ SResponse /\ UNCHANGED <<xvars, dvars, pvars, tvars>>
    \/ SRaises /\ UNCHANGED <<xvars, dvars, pvars, tvars>>

SpecSummarizer == SInit /\ [][SNext]_vars

----------------------------------------------------------------------------
(* Properties of summarize_text's rate limiting (SpecSummarizer) *)

\* C14: any two consecutive requests sent to the API by one GeminiSummarizer
\* are at least rate_limit_delay apart, also when some requests fail.
C14_RateLimited ==
    sent_prev # -1 => sent_last - sent_prev >= Delay

====
